---- MODULE Spec2Model ----
(***************************************************************************)
(* Model of meal-planner/server.py: the job registry (RESPONSES), the      *)
(* rate limiter, the JSON document store, the tool executor and the        *)
(* orchestrator run process_claude_request, one step per statement group.  *)
(***************************************************************************)
EXTENDS Integers, Sequences, FiniteSets, TLC

VARIABLES
    RESPONSES,        \* keys of the RESPONSES dict (handles still registered)
    jobs,             \* the job dict object created for each handle
    rate_timestamps,  \* _rate_timestamps
    now,              \* time.time(), in seconds
    today,            \* date.today(), as a day number
    api_key,          \* what _load_api_key() returns ("" when none is configured)
    claude_client,    \* _claude_client / _claude_api_key: key the cached client was built with
    docs,             \* the five JSON documents of DATA_DIR
    run,              \* local state of process_claude_request, per handle
    write_faults,     \* number of writes the file system has failed so far
    requests,         \* number of POST /api/chat requests received so far
    model_calls,      \* per handle: client.messages.create calls made by its run
    tool_calls,       \* per handle: execute_tool calls made by its run, in order
    call_failures,    \* per handle: failed attempts of the model call its run made last
    rate_log,         \* every check_rate_limit() call so far: when, and whether it allowed
    last_sweep,       \* time of the last pass of cleanup_loop
    disk,             \* the files of DATA_DIR, as sequences of written chunks
    writes            \* local state of the safe_write_json calls in flight

vars == <<RESPONSES, jobs, rate_timestamps, now, today, api_key, claude_client,
          docs, run, write_faults, requests, model_calls, tool_calls, call_failures,
          rate_log, last_sweep, disk, writes>>

----------------------------------------------------------------------------
\* Bounds of the model
MaxRequests == 1      \* POST /api/chat requests received
MaxDay == 1           \* days the clock can advance
MaxWriteFaults == 1   \* writes that can fail
MaxCalls == 12        \* requests the rate limiter sees in SpecRate
MaxRateTicks == 4     \* steps the clock makes in SpecRate
MaxSweepTicks == 3    \* steps the clock makes in SpecSweep
MaxItems == 3         \* items of the inventory.json found at startup in SpecScan

\* Program constants
RATE_LIMIT_WINDOW == 60
RATE_LIMIT_MAX == 10
RESPONSE_TTL == 3600
SWEEP_INTERVAL == 300
max_attempts == 3
max_rounds == 5
NeverExpires == 999

\* Spec follows one orchestrator run, against every response of the model,
\* failing writes and a changing date
Handles == {1}
None == "None"
NoKey == ""
TheKey == "sk-ant-1"

KeyGuidance == "Claude API key not configured. Go to Settings -> Add-ons -> Meal Planner -> Configuration."
Fallback == "Done - files updated."
WriteError == "500: Write error"
NotADict == "'str' object has no attribute 'get'"
ApiError == "Connection error."
ImportFailure == "No module named 'anthropic'"

----------------------------------------------------------------------------
\* Generic helpers for dicts (records) and lists (sequences)

Put(d, k, v) == [x \in (DOMAIN d) \cup {k} |-> IF x = k THEN v ELSE d[x]]

Get(d, k, default) == IF k \in DOMAIN d THEN d[k] ELSE default

\* {**a, **b}
Merge(a, b) == [x \in (DOMAIN a) \cup (DOMAIN b) |-> IF x \in DOMAIN b THEN b[x] ELSE a[x]]

RECURSIVE SelectSeqBy(_, _)
SelectSeqBy(s, keep) ==
    IF s = <<>> THEN <<>>
    ELSE IF Head(s) \in keep THEN <<Head(s)>> \o SelectSeqBy(Tail(s), keep)
         ELSE SelectSeqBy(Tail(s), keep)

\* str.lower() on the names the model uses
Lower(s) ==
    CASE s = "Milk" -> "milk"
      [] s = "Tomato" -> "tomato"
      [] OTHER -> s

----------------------------------------------------------------------------
\* JSON values of the documents.  An inventory item is a dict
\* [kind |-> "dict", ...keys...] or a non-dict value [kind |-> "str"].

IsDict(item) == item.kind = "dict"

NoDate == -1      \* "" (no date)
BadDate == -2     \* a string datetime.fromisoformat rejects

Milk == [kind |-> "dict", name |-> "Milk", amount |-> "1", unit |-> "l",
         category |-> "dairy", bestBefore |-> 1, addedDate |-> 0]
Rice == [kind |-> "dict", name |-> "Rice", amount |-> "2", unit |-> "kg",
         category |-> "grains"]
Junk == [kind |-> "str"]

EmptyDocs ==
    [inventory |-> <<>>, status |-> [x \in {} |-> 0], meal_plan |-> "none",
     shopping_list |-> "none", preferences |-> [x \in {} |-> 0]]

----------------------------------------------------------------------------
\* Expiry helpers

\* days_until(date_str), with date.today() = day
days_until(date_str, day) ==
    IF date_str = NoDate THEN NeverExpires
    ELSE IF date_str = BadDate THEN NeverExpires
    ELSE date_str - day

expiry_status(date_str, day) ==
    LET d == days_until(date_str, day)
    IN  IF d <= 1 THEN "red" ELSE IF d <= 3 THEN "amber" ELSE "green"

\* item.get("bestBefore") or item.get("expiry") or ""
ExpiryVal(item) ==
    IF Get(item, "bestBefore", NoDate) # NoDate THEN item.bestBefore
    ELSE Get(item, "expiry", NoDate)

\* f"{item.get('amount', '')} {item.get('unit', '')}".strip()
AmountText(item) ==
    LET a == Get(item, "amount", "")
        u == Get(item, "unit", "")
    IN  IF u = "" THEN a ELSE IF a = "" THEN u ELSE a \o " " \o u

ScanEntry(item, day) ==
    LET d == days_until(ExpiryVal(item), day)
        entry == [item |-> Get(item, "name", "Unknown"), amount |-> AmountText(item),
                  bestBefore |-> ExpiryVal(item), daysUntil |-> d,
                  category |-> Get(item, "category", "")]
    IN  IF d <= 1 THEN Put(entry, "action", "USE TODAY")
        ELSE IF d <= 3 THEN Put(entry, "action", "Plan to use in next 1-2 meals")
        ELSE entry

\* ScanBand with the red band ending one day earlier
ScanBand_RedBelowOne(item, day) ==
    LET d == days_until(ExpiryVal(item), day)
    IN  IF d < 1 THEN "red" ELSE IF d <= 3 THEN "amber" ELSE "green"

ScanBand(item, day) ==
    LET d == days_until(ExpiryVal(item), day)
    IN  IF d <= 1 THEN "red" ELSE IF d <= 3 THEN "amber" ELSE "green"

RECURSIVE BandEntries(_, _, _)
BandEntries(inv, day, band) ==
    IF inv = <<>> THEN <<>>
    ELSE IF ScanBand(Head(inv), day) = band
         THEN <<ScanEntry(Head(inv), day)>> \o BandEntries(Tail(inv), day, band)
         ELSE BandEntries(Tail(inv), day, band)

\* item.get(...) raises on an item that is no dict
ScanRaises(inv) == \E i \in 1..Len(inv) : ~IsDict(inv[i])

\* scan_inventory_expiry() on a well-formed inventory
scan_inventory_expiry(inv, day) ==
    [red |-> BandEntries(inv, day, "red"),
     amber |-> BandEntries(inv, day, "amber"),
     green |-> BandEntries(inv, day, "green")]

\* The status refresh: st["expiryAlerts"] = alerts; ...["lastChecked"] = today
RefreshedStatus(st, inv, day) ==
    Put(st, "expiryAlerts", Put(scan_inventory_expiry(inv, day), "lastChecked", day))

----------------------------------------------------------------------------
\* Tool execution

\* _deep_merge(base, override); a value is [kind |-> "map", m |-> dict] or
\* [kind |-> "val", v |-> atom]
RECURSIVE deep_merge(_, _)
deep_merge(base, override) ==
    [k \in (DOMAIN base) \cup (DOMAIN override) |->
        IF k \notin DOMAIN override THEN base[k]
        ELSE IF k \in DOMAIN base /\ base[k].kind = "map" /\ override[k].kind = "map"
             THEN [kind |-> "map", m |-> deep_merge(base[k].m, override[k].m)]
             ELSE override[k]]

AllDicts(s) == \A i \in 1..Len(s) : IsDict(s[i])

\* action "add": every item gets addedDate when it has none, and is appended
RECURSIVE AddItems(_, _, _)
AddItems(inv, items, day) ==
    IF items = <<>> THEN inv
    ELSE LET item == Head(items)
             stamped == IF "addedDate" \in DOMAIN item THEN item
                        ELSE Put(item, "addedDate", day)
         IN  AddItems(Append(inv, stamped), Tail(items), day)

ItemName(item) == Lower(Get(item, "name", ""))

\* action "remove"
RemoveItems(inv, items) ==
    LET names == {ItemName(items[i]) : i \in 1..Len(items)}
        keep == {inv[i] : i \in {k \in 1..Len(inv) : ItemName(inv[k]) \notin names}}
    IN  SelectSeqBy(inv, keep)

\* FirstMatch that takes the last item with that name
FirstMatch_Last(inv, new_item) ==
    LET hits == {i \in 1..Len(inv) : ItemName(inv[i]) = ItemName(new_item)}
    IN  IF hits = {} THEN 0 ELSE CHOOSE i \in hits : \A k \in hits : i >= k

\* action "update", one input item: index of the first item with that name, 0 if none
FirstMatch(inv, new_item) ==
    LET hits == {i \in 1..Len(inv) : ItemName(inv[i]) = ItemName(new_item)}
    IN  IF hits = {} THEN 0 ELSE CHOOSE i \in hits : \A k \in hits : i <= k

\* the update loop raises when it calls .get on a non-dict before it finds a match
UpdateOneRaises(inv, new_item) ==
    /\ inv # <<>>
    /\ \/ ~IsDict(new_item)
       \/ LET m == FirstMatch(inv, new_item)
              last == IF m = 0 THEN Len(inv) ELSE m
          IN  \E i \in 1..last : ~IsDict(inv[i])

UpdateOne(inv, new_item) ==
    LET m == FirstMatch(inv, new_item)
    IN  IF inv = <<>> \/ m = 0 THEN Append(inv, new_item)
        ELSE [inv EXCEPT ![m] = Merge(inv[m], new_item)]

RECURSIVE UpdateRaises(_, _)
UpdateRaises(inv, items) ==
    IF items = <<>> THEN FALSE
    ELSE IF UpdateOneRaises(inv, Head(items)) THEN TRUE
    ELSE UpdateRaises(UpdateOne(inv, Head(items)), Tail(items))

RECURSIVE UpdateItems(_, _)
UpdateItems(inv, items) ==
    IF items = <<>> THEN inv
    ELSE UpdateItems(UpdateOne(inv, Head(items)), Tail(items))

Failure(msg) == [success |-> FALSE, error |-> msg]
Success(msg) == [success |-> TRUE, message |-> msg]

\* safe_write_json(filename, data) inside a tool: the new documents when the
\* write succeeds; when it fails the target keeps its content and the
\* HTTPException becomes the tool's error
ToolWrite(d, filename, data, ok, msg) ==
    IF ok THEN [result |-> Success(msg), docs |-> [d EXCEPT ![filename] = data], wrote |-> TRUE]
    ELSE [result |-> Failure(WriteError), docs |-> d, wrote |-> TRUE]

ToolRaise(d, msg) == [result |-> Failure(msg), docs |-> d, wrote |-> FALSE]

\* a JSON value that is no list and has no len(), such as the number 5
NoList == <<[kind |-> "int"]>>
IsList(v) == v # NoList

\* WriteInventory that refuses a rewrite which changes nothing
WriteInventory_RefusesNoChange(d, items, data, ok, msg) ==
    IF data = d.inventory THEN ToolRaise(d, "Nothing to do")
    ELSE ToolWrite(d, "inventory", data, ok, msg)

\* the end of the update_inventory branch: safe_write_json("inventory.json",
\* inv), then the message, formatted with len(items) after the write
WriteInventory(d, items, data, ok, msg) ==
    IF ok /\ ~IsList(items)
    THEN [result |-> Failure("object of type 'int' has no len()"),
          docs |-> [d EXCEPT !.inventory = data], wrote |-> TRUE]
    ELSE ToolWrite(d, "inventory", data, ok, msg)

\* the update_inventory branch of execute_tool
UpdateInventory(input, d, day, ok) ==
    IF "action" \notin DOMAIN input THEN ToolRaise(d, "'action'")
    ELSE
    LET action == input.action
        items == Get(input, "items", <<>>)
        inv == d.inventory
        msg == "Inventory " \o action \o ": " \o ToString(Len(items)) \o " items"
    IN  CASE action = "add" ->
                IF ~IsList(items) THEN ToolRaise(d, "'int' object is not iterable")
                ELSE IF ~AllDicts(items)
                THEN ToolRaise(d, "'str' object does not support item assignment")
                ELSE IF items # <<>> /\ ~IsList(inv)
                THEN ToolRaise(d, "'int' object has no attribute 'append'")
                ELSE WriteInventory(d, items, AddItems(inv, items, day), ok, msg)
          [] action = "remove" ->
                IF ~IsList(items) \/ ~IsList(inv)
                THEN ToolRaise(d, "'int' object is not iterable")
                ELSE IF ~AllDicts(items) \/ ~AllDicts(inv)
                THEN ToolRaise(d, NotADict)
                ELSE WriteInventory(d, items, RemoveItems(inv, items), ok, msg)
          [] action = "update" ->
                IF ~IsList(items) \/ (items # <<>> /\ ~IsList(inv))
                THEN ToolRaise(d, "'int' object is not iterable")
                ELSE IF UpdateRaises(inv, items) THEN ToolRaise(d, NotADict)
                ELSE WriteInventory(d, items, UpdateItems(inv, items), ok, msg)
          [] action = "replace_all" -> WriteInventory(d, items, items, ok, msg)
          [] OTHER -> WriteInventory(d, items, inv, ok, msg)

\* execute_tool(name, input_data): the result it returns and the documents
\* it leaves; ok says whether the file system lets its write through
execute_tool(name, input, d, day, ok) ==
    CASE name = "update_meal_plan" ->
            IF "meal_plan" \notin DOMAIN input THEN ToolRaise(d, "'meal_plan'")
            ELSE ToolWrite(d, "meal_plan", input.meal_plan, ok, "Meal plan updated")
      [] name = "update_shopping_list" ->
            IF "shopping_list" \notin DOMAIN input THEN ToolRaise(d, "'shopping_list'")
            ELSE ToolWrite(d, "shopping_list", input.shopping_list, ok, "Shopping list updated")
      [] name = "update_inventory" -> UpdateInventory(input, d, day, ok)
      [] name = "update_status" ->
            IF "status" \notin DOMAIN input THEN ToolRaise(d, "'status'")
            ELSE ToolWrite(d, "status", Merge(d.status, input.status), ok, "Status updated")
      [] name = "update_preferences" ->
            IF "preferences" \notin DOMAIN input THEN ToolRaise(d, "'preferences'")
            ELSE ToolWrite(d, "preferences", deep_merge(d.preferences, input.preferences),
                           ok, "Preferences updated")
      [] OTHER -> ToolRaise(d, "Unknown tool: " \o name)

----------------------------------------------------------------------------
\* Responses of the external model: what client.messages.create can return

Text(t) == [type |-> "text", text |-> t]
ToolUse(id, name, input) == [type |-> "tool_use", id |-> id, name |-> name, input |-> input]

FinalText == [stop_reason |-> "end_turn", content |-> <<Text("Plan"), Text("saved.")>>]
AddMilk ==
    [stop_reason |-> "tool_use",
     content |-> <<Text("Adding."),
                   ToolUse("t1", "update_inventory", [action |-> "add", items |-> <<Milk>>])>>]
PlanThenUnknown ==
    [stop_reason |-> "tool_use",
     content |-> <<ToolUse("t2", "update_meal_plan", [meal_plan |-> "week-plan"]),
                   ToolUse("t3", "send_email", [to |-> "x"])>>]
ReplaceWithJunk ==
    [stop_reason |-> "tool_use",
     content |-> <<ToolUse("t4", "update_inventory", [action |-> "replace_all", items |-> <<Junk>>])>>]

ModelResponses == {FinalText, AddMilk, PlanThenUnknown, ReplaceWithJunk}

\* a second request to add an item, for the runs that overlap
AddRice ==
    [stop_reason |-> "tool_use",
     content |-> <<ToolUse("t5", "update_inventory", [action |-> "add", items |-> <<Rice>>])>>]

\* "\n".join(block.text for the blocks that have a text)
RECURSIVE JoinText(_)
JoinText(content) ==
    IF content = <<>> THEN ""
    ELSE LET rest == JoinText(Tail(content))
         IN  IF Head(content).type # "text" THEN rest
             ELSE IF \A i \in 1..Len(Tail(content)) : Tail(content)[i].type # "text"
                  THEN Head(content).text
                  ELSE Head(content).text \o "\n" \o rest

\* "\n".join(text_parts) or "Done - files updated."
FinalResponseText(content) ==
    IF JoinText(content) = "" THEN Fallback ELSE JoinText(content)

----------------------------------------------------------------------------
\* State after construction and startup()

NoJob == [status |-> "absent"]
NoResult == [stop_reason |-> "none", content |-> <<>>]
NotStarted ==
    [pc |-> "none", attempt |-> 0, rounds |-> 0, result |-> NoResult, blk |-> 0,
     tools_executed |-> <<>>, tool_results |-> <<>>, err |-> None, read |-> EmptyDocs]

\* a file of DATA_DIR: whether it exists and the chunks written to it so far
NoFile == [exists |-> FALSE, chunks |-> <<>>]
File(chunks) == [exists |-> TRUE, chunks |-> chunks]

\* the document file the write-level model follows, and the names
\* tempfile.mkstemp can hand out, one per safe_write_json call
WriteCalls == {1, 2}
Target == "inventory.json"
TmpName(w) == "tmp" \o ToString(w) \o ".tmp"
Paths == {Target} \cup {TmpName(w) : w \in WriteCalls}

NoWrite == [pc |-> "idle", data |-> None, tmp |-> None, k |-> 0, err |-> None]

\* the state after construction and startup(), with H the handles uuid4 can
\* return and inv the inventory.json found in the data directory; startup()
\* runs one expiry scan over it and passes over a scan that raises
BootOn(H, inv) ==
    /\ RESPONSES = {}
    /\ jobs = [h \in H |-> NoJob]
    /\ rate_timestamps = <<>>
    /\ now = 0
    /\ today = 0
    /\ api_key \in {NoKey, TheKey}
    /\ claude_client = [client |-> api_key # NoKey, key |-> IF api_key # NoKey THEN api_key ELSE None]
    /\ docs = [EmptyDocs EXCEPT
                  !.inventory = inv,
                  !.status = IF ScanRaises(inv) THEN EmptyDocs.status
                             ELSE RefreshedStatus(EmptyDocs.status, inv, 0)]
    /\ run = [h \in H |-> NotStarted]
    /\ write_faults = 0
    /\ requests = 0
    /\ model_calls = [h \in H |-> 0]
    /\ tool_calls = [h \in H |-> <<>>]
    /\ call_failures = [h \in H |-> 0]
    /\ rate_log = <<>>
    /\ last_sweep = 0
    /\ disk = [p \in Paths |-> NoFile]
    /\ writes = [w \in WriteCalls |-> NoWrite]

\* startup() over an empty data directory
Boot(H) == BootOn(H, <<>>)

Init == Boot(Handles)

\* Whether the file system lets a write through: it can fail MaxWriteFaults times
WriteOutcomes == IF write_faults < MaxWriteFaults THEN BOOLEAN ELSE {TRUE}

----------------------------------------------------------------------------
\* Rate limiter and submission

Pruned(ts, t) == SelectSeq(ts, LAMBDA x : x > t - RATE_LIMIT_WINDOW)

\* check_rate_limit that never drops an old timestamp
check_rate_limit_NoPrune(ts, t) ==
    IF Len(ts) >= RATE_LIMIT_MAX THEN [allowed |-> FALSE, ts |-> ts]
    ELSE [allowed |-> TRUE, ts |-> Append(ts, t)]

\* check_rate_limit rejecting only above the maximum
check_rate_limit_OffByOne(ts, t) ==
    LET kept == Pruned(ts, t)
    IN  IF Len(kept) > RATE_LIMIT_MAX THEN [allowed |-> FALSE, ts |-> kept]
        ELSE [allowed |-> TRUE, ts |-> Append(kept, t)]

\* check_rate_limit() at time t: the timestamps it leaves and whether it allows
check_rate_limit(ts, t) ==
    LET kept == Pruned(ts, t)
    IN  IF Len(kept) >= RATE_LIMIT_MAX THEN [allowed |-> FALSE, ts |-> kept]
        ELSE [allowed |-> TRUE, ts |-> Append(kept, t)]

PendingJob(message, t) ==
    [status |-> "pending", created |-> t, user_message |-> message,
     claude_response |-> None, tools_executed |-> <<>>, error |-> None]

\* uuid.uuid4(): a handle never used before
FreshHandle ==
    CHOOSE h \in DOMAIN jobs : jobs[h] = NoJob /\ \A k \in DOMAIN jobs : jobs[k] = NoJob => h <= k

\* Submit that schedules the run without storing the Job
Submit_NoStore(message) ==
    /\ message = "" \/ \E h \in DOMAIN jobs : jobs[h] = NoJob
    /\ requests' = requests + 1
    /\ LET rl == check_rate_limit(rate_timestamps, now)
       IN  /\ rate_timestamps' = rl.ts
           /\ rate_log' = Append(rate_log, [at |-> now, allowed |-> rl.allowed])
           /\ IF rl.allowed /\ message # ""
              THEN /\ jobs' = [jobs EXCEPT ![FreshHandle] = PendingJob(message, now)]
                   /\ run' = [run EXCEPT ![FreshHandle].pc = "start"]
                   /\ UNCHANGED RESPONSES
              ELSE UNCHANGED <<RESPONSES, jobs, run>>
    /\ UNCHANGED <<now, today, api_key, claude_client, docs, write_faults, model_calls,
                   tool_calls, call_failures, last_sweep, disk, writes>>

\* Submit that validates the input before it calls check_rate_limit()
Submit_ValidatesFirst(message) ==
    /\ message = "" \/ \E h \in DOMAIN jobs : jobs[h] = NoJob
    /\ requests' = requests + 1
    /\ IF message = ""
       THEN UNCHANGED <<rate_timestamps, rate_log, RESPONSES, jobs, run>>
       ELSE LET rl == check_rate_limit(rate_timestamps, now)
            IN  /\ rate_timestamps' = rl.ts
                /\ rate_log' = Append(rate_log, [at |-> now, allowed |-> rl.allowed])
                /\ IF rl.allowed
                   THEN /\ RESPONSES' = RESPONSES \cup {FreshHandle}
                        /\ jobs' = [jobs EXCEPT ![FreshHandle] = PendingJob(message, now)]
                        /\ run' = [run EXCEPT ![FreshHandle].pc = "start"]
                   ELSE UNCHANGED <<RESPONSES, jobs, run>>
    /\ UNCHANGED <<now, today, api_key, claude_client, docs, write_faults, model_calls,
                   tool_calls, call_failures, last_sweep, disk, writes>>

\* the part chat and action share: check_rate_limit(), then, unless the
\* request is rejected (429) or has no message (400), the pending Job stored
\* under a fresh handle and the run scheduled with bg.add_task
Submit(message) ==
    /\ message = "" \/ \E h \in DOMAIN jobs : jobs[h] = NoJob
    /\ requests' = requests + 1
    /\ LET rl == check_rate_limit(rate_timestamps, now)
       IN  /\ rate_timestamps' = rl.ts
           /\ rate_log' = Append(rate_log, [at |-> now, allowed |-> rl.allowed])
           /\ IF rl.allowed /\ message # ""
              THEN /\ RESPONSES' = RESPONSES \cup {FreshHandle}
                   /\ jobs' = [jobs EXCEPT ![FreshHandle] = PendingJob(message, now)]
                   /\ run' = [run EXCEPT ![FreshHandle].pc = "start"]
              ELSE UNCHANGED <<RESPONSES, jobs, run>>
    /\ UNCHANGED <<now, today, api_key, claude_client, docs, write_faults, model_calls,
                   tool_calls, call_failures, last_sweep, disk, writes>>

\* POST /api/chat with body {message}: body.get("message", "").strip()
chat(message) == Submit(message)

\* prompts.get(action_type) of POST /api/action, each prompt cut to its first
\* sentence; "" when the type is unknown
ActionPrompt(action_type) ==
    CASE action_type = "generate_meal_plan" -> "Generate a complete weekly meal plan for this week."
      [] action_type = "update_shopping" -> "Based on the current meal plan and inventory, generate a shopping list."
      [] action_type = "scan_expiry" -> "Scan the current inventory for expiry dates."
      [] action_type = "create_recipe" -> "Create a recipe for today."
      [] OTHER -> ""

\* POST /api/action with body {action}
action(action_type) == Submit(ActionPrompt(action_type))

\* POST /api/chat, for as long as the model accepts requests
Chat(message) ==
    /\ requests < MaxRequests
    /\ chat(message)

\* POST /api/settings with a well-formed key: _save_api_key, then get_claude_client()
SaveSettings ==
    /\ api_key = NoKey
    /\ api_key' = TheKey
    /\ \E built \in BOOLEAN : claude_client' = [client |-> built, key |-> TheKey]
    /\ UNCHANGED <<RESPONSES, jobs, rate_timestamps, now, today, docs, run, write_faults,
                   requests, model_calls, tool_calls, call_failures,
                   rate_log, last_sweep, disk, writes>>

\* time.time() moves on by d seconds
Tick(d) ==
    /\ now' = now + d
    /\ UNCHANGED <<RESPONSES, jobs, rate_timestamps, today, api_key, claude_client, docs, run,
                   write_faults, requests, model_calls, tool_calls, call_failures,
                   rate_log, last_sweep, disk, writes>>

\* now - v.get("created", 0) > RESPONSE_TTL
Expired(h) == now - jobs[h].created > RESPONSE_TTL

\* cleanup_loop that only removes Jobs that are no longer pending
cleanup_loop_SparesPending ==
    /\ now >= last_sweep + SWEEP_INTERVAL
    /\ RESPONSES' = {h \in RESPONSES : ~Expired(h) \/ jobs[h].status = "pending"}
    /\ last_sweep' = now
    /\ UNCHANGED <<jobs, rate_timestamps, now, today, api_key, claude_client, docs, run,
                   write_faults, requests, model_calls, tool_calls, call_failures,
                   rate_log, disk, writes>>

\* one pass of cleanup_loop, once its asyncio.sleep(300) is over: every Job
\* older than RESPONSE_TTL leaves RESPONSES; the dict itself lives on for the
\* run that holds it
cleanup_loop ==
    /\ now >= last_sweep + SWEEP_INTERVAL
    /\ RESPONSES' = {h \in RESPONSES : ~Expired(h)}
    /\ last_sweep' = now
    /\ UNCHANGED <<jobs, rate_timestamps, now, today, api_key, claude_client, docs, run,
                   write_faults, requests, model_calls, tool_calls, call_failures,
                   rate_log, disk, writes>>

\* GET /api/chat/{response_id}
get_chat_response(response_id) ==
    IF response_id \notin RESPONSES THEN [code |-> 404, detail |-> "Response not found"]
    ELSE [code |-> 200, status |-> jobs[response_id].status,
          claude_response |-> jobs[response_id].claude_response,
          tools_executed |-> jobs[response_id].tools_executed,
          error |-> jobs[response_id].error]

\* midnight
NextDay ==
    /\ today < MaxDay
    /\ today' = today + 1
    /\ UNCHANGED <<RESPONSES, jobs, rate_timestamps, now, api_key, claude_client, docs, run,
                   write_faults, requests, model_calls, tool_calls, call_failures,
                   rate_log, last_sweep, disk, writes>>

----------------------------------------------------------------------------
\* process_claude_request(response_id, user_message), for the job j

OtherRunVars == <<RESPONSES, rate_timestamps, now, today, api_key, requests,
                  rate_log, last_sweep, disk, writes>>

\* entering the "except Exception as e" handler with str(e) = msg
Raise(j, msg) == [run EXCEPT ![j].pc = "except_status", ![j].err = msg]

\* Start without the "if not client" return
Start_IgnoresMissingKey(j) ==
    /\ run[j].pc = "start"
    /\ run' = [run EXCEPT ![j].pc = IF j \in RESPONSES THEN "context" ELSE "raised"]
    /\ UNCHANGED <<OtherRunVars, jobs, claude_client, docs, write_faults, model_calls,
                   tool_calls, call_failures>>

\* resp = RESPONSES[response_id]; client = get_claude_client()
Start(j) ==
    /\ run[j].pc = "start"
    /\ IF j \notin RESPONSES
       THEN \* KeyError, outside the try
            /\ run' = [run EXCEPT ![j].pc = "raised"]
            /\ UNCHANGED claude_client
       ELSE IF api_key = NoKey
       THEN /\ run' = [run EXCEPT ![j].pc = "nokey_status"]
            /\ UNCHANGED claude_client
       ELSE IF claude_client.client /\ claude_client.key = api_key
       THEN /\ run' = [run EXCEPT ![j].pc = "context"]
            /\ UNCHANGED claude_client
       ELSE \* Anthropic(api_key=api_key): the import or the constructor can raise,
            \* outside the try
            \E built \in BOOLEAN :
                IF built
                THEN /\ claude_client' = [client |-> TRUE, key |-> api_key]
                     /\ run' = [run EXCEPT ![j].pc = "context"]
                ELSE /\ UNCHANGED claude_client
                     /\ run' = [run EXCEPT ![j].pc = "raised", ![j].err = ImportFailure]
    /\ UNCHANGED <<OtherRunVars, jobs, docs, write_faults, model_calls, tool_calls,
                   call_failures>>

\* resp["status"] = "error" when there is no client
NoClientStatus(j) ==
    /\ run[j].pc = "nokey_status"
    /\ jobs' = [jobs EXCEPT ![j].status = "error"]
    /\ run' = [run EXCEPT ![j].pc = "nokey_error"]
    /\ UNCHANGED <<OtherRunVars, claude_client, docs, write_faults, model_calls, tool_calls, call_failures>>

\* resp["error"] = "Claude API key not configured..."; return
NoClientError(j) ==
    /\ run[j].pc = "nokey_error"
    /\ jobs' = [jobs EXCEPT ![j].error = KeyGuidance]
    /\ run' = [run EXCEPT ![j].pc = "done"]
    /\ UNCHANGED <<OtherRunVars, claude_client, docs, write_faults, model_calls, tool_calls, call_failures>>

\* context = build_context(): item.get raises on an inventory item that is no dict
BuildContext(j) ==
    /\ run[j].pc = "context"
    /\ run' = IF ScanRaises(docs.inventory) THEN Raise(j, NotADict)
              ELSE [run EXCEPT ![j].pc = "call", ![j].attempt = 0]
    /\ UNCHANGED <<OtherRunVars, jobs, claude_client, docs, write_faults, model_calls, tool_calls, call_failures>>

\* ToolBlocks walking the response from its last block to its first
ToolBlocks_Reversed(content) ==
    LET s == SelectSeq(content, LAMBDA blk : blk.type = "tool_use")
    IN  [i \in 1..Len(s) |-> s[Len(s) + 1 - i]]

\* the blocks "for block in result.content: if block.type == 'tool_use'" acts on
ToolBlocks(content) == SelectSeq(content, LAMBDA blk : blk.type = "tool_use")

\* LoopHead with the round limit off by one
LoopHead_OneMoreRound(rec, r, n) ==
    IF n <= max_rounds /\ r.stop_reason = "tool_use"
    THEN [rec EXCEPT !.pc = "tools", !.result = r, !.rounds = n, !.blk = 1, !.tool_results = <<>>]
    ELSE [rec EXCEPT !.pc = "text", !.result = r, !.rounds = n]

\* LoopHead with "tools_executed = []" inside the loop
LoopHead_ResetsLog(rec, r, n) ==
    IF n < max_rounds /\ r.stop_reason = "tool_use"
    THEN [rec EXCEPT !.pc = "tools", !.result = r, !.rounds = n, !.blk = 1, !.tool_results = <<>>,
                     !.tools_executed = <<>>]
    ELSE [rec EXCEPT !.pc = "text", !.result = r, !.rounds = n]

\* "for _ in range(max_rounds): if result.stop_reason != 'tool_use': break",
\* entered with the response r after n rounds: the run goes on to execute
\* r's tools, or leaves the loop
LoopHead(rec, r, n) ==
    IF n < max_rounds /\ r.stop_reason = "tool_use"
    THEN [rec EXCEPT !.pc = "tools", !.result = r, !.rounds = n, !.blk = 1, !.tool_results = <<>>]
    ELSE [rec EXCEPT !.pc = "text", !.result = r, !.rounds = n]

\* CallModel re-raising after the second attempt
CallModel_TwoAttempts(j) ==
    /\ run[j].pc = "call"
    /\ model_calls' = [model_calls EXCEPT ![j] = @ + 1]
    /\ \/ /\ \E r \in ModelResponses :
               run' = [run EXCEPT ![j] = LoopHead([@ EXCEPT !.tools_executed = <<>>], r, 0)]
          /\ call_failures' = [call_failures EXCEPT ![j] = 0]
       \/ /\ run' = IF run[j].attempt = max_attempts - 2 THEN Raise(j, ApiError)
                    ELSE [run EXCEPT ![j].pc = "sleep"]
          /\ call_failures' = [call_failures EXCEPT ![j] = @ + 1]
    /\ UNCHANGED <<OtherRunVars, jobs, claude_client, docs, write_faults, tool_calls>>

\* one pass of "for attempt in range(3)": client.messages.create returns a
\* response out of menu or raises; the last attempt re-raises; a response
\* starts the tool log and enters the tool-use loop
FirstCall(j, menu) ==
    /\ run[j].pc = "call"
    /\ model_calls' = [model_calls EXCEPT ![j] = @ + 1]
    /\ \/ /\ \E r \in menu :
               run' = [run EXCEPT ![j] = LoopHead([@ EXCEPT !.tools_executed = <<>>], r, 0)]
          /\ call_failures' = [call_failures EXCEPT ![j] = 0]
       \/ /\ run' = IF run[j].attempt = max_attempts - 1 THEN Raise(j, ApiError)
                    ELSE [run EXCEPT ![j].pc = "sleep"]
          /\ call_failures' = [call_failures EXCEPT ![j] = @ + 1]
    /\ UNCHANGED <<OtherRunVars, jobs, claude_client, docs, write_faults, tool_calls>>

CallModel(j) == FirstCall(j, ModelResponses)

\* time.sleep(2 ** attempt), then the next attempt
Backoff(j) ==
    /\ run[j].pc = "sleep"
    /\ run' = [run EXCEPT ![j].pc = "call", ![j].attempt = @ + 1]
    /\ UNCHANGED <<OtherRunVars, jobs, claude_client, docs, write_faults, model_calls, tool_calls, call_failures>>

\* the record appended to tools_executed: {"tool": block.name, **tool_result}
LogRecord(name, tool_result) == Put(tool_result, "tool", name)

\* json.dumps(tool_result): the serialised text, kept as a tagged value
json_dumps(v) == [json |-> v]

\* ExecBlock with an execute_tool that lets a tool's failure propagate
ExecBlock_FailureRaises(j) ==
    /\ run[j].pc = "tools"
    /\ run[j].blk <= Len(ToolBlocks(run[j].result.content))
    /\ LET block == ToolBlocks(run[j].result.content)[run[j].blk]
       IN  \E ok \in WriteOutcomes :
              LET r == execute_tool(block.name, block.input, docs, today, ok)
              IN  /\ r.wrote \/ ok
                  /\ docs' = r.docs
                  /\ write_faults' = IF ok THEN write_faults ELSE write_faults + 1
                  /\ run' = IF ~r.result.success THEN Raise(j, r.result.error)
                            ELSE [run EXCEPT
                               ![j].blk = @ + 1,
                               ![j].tools_executed = Append(@, LogRecord(block.name, r.result)),
                               ![j].tool_results =
                                   Append(@, [type |-> "tool_result", tool_use_id |-> block.id,
                                              content |-> json_dumps(r.result)])]
                  /\ tool_calls' = [tool_calls EXCEPT ![j] =
                                       Append(@, [tool |-> block.name, round |-> run[j].rounds + 1,
                                                  id |-> block.id, success |-> r.result.success,
                                                  registered |-> j \in RESPONSES])]
    /\ UNCHANGED <<OtherRunVars, jobs, claude_client, model_calls, call_failures>>

\* one tool_use block of the response: execute_tool, the record appended to
\* tools_executed and the tool_result queued for the model
ExecBlock(j) ==
    /\ run[j].pc = "tools"
    /\ run[j].blk <= Len(ToolBlocks(run[j].result.content))
    /\ LET block == ToolBlocks(run[j].result.content)[run[j].blk]
       IN  \E ok \in WriteOutcomes :
              LET r == execute_tool(block.name, block.input, docs, today, ok)
              IN  /\ r.wrote \/ ok
                  /\ docs' = r.docs
                  /\ write_faults' = IF ok THEN write_faults ELSE write_faults + 1
                  /\ run' = [run EXCEPT
                               ![j].blk = @ + 1,
                               ![j].tools_executed = Append(@, LogRecord(block.name, r.result)),
                               ![j].tool_results =
                                   Append(@, [type |-> "tool_result", tool_use_id |-> block.id,
                                              content |-> json_dumps(r.result)])]
                  /\ tool_calls' = [tool_calls EXCEPT ![j] =
                                       Append(@, [tool |-> block.name, round |-> run[j].rounds + 1,
                                                  id |-> block.id, success |-> r.result.success,
                                                  registered |-> j \in RESPONSES])]
    /\ UNCHANGED <<OtherRunVars, jobs, claude_client, model_calls, call_failures>>

\* the document a tool writes
DocOf(name) ==
    CASE name = "update_meal_plan" -> "meal_plan"
      [] name = "update_shopping_list" -> "shopping_list"
      [] name = "update_inventory" -> "inventory"
      [] name = "update_status" -> "status"
      [] name = "update_preferences" -> "preferences"
      [] OTHER -> None

\* ExecBlock is execute_tool taken as one step, which is what a single run
\* sees. With several runs, each in its own worker thread, the call is two
\* steps: ExecRead, up to the safe_read_json of the document, and ExecWrite,
\* the change computed on what was read, then safe_write_json and the return.
ExecRead(j) ==
    /\ run[j].pc = "tools"
    /\ run[j].blk <= Len(ToolBlocks(run[j].result.content))
    /\ run' = [run EXCEPT ![j].pc = "tool_write", ![j].read = docs]
    /\ UNCHANGED <<OtherRunVars, jobs, claude_client, docs, write_faults, model_calls,
                   tool_calls, call_failures>>

\* ExecWrite under a lock that makes it read the document again
ExecWrite_Locked(j) ==
    /\ run[j].pc = "tool_write"
    /\ LET block == ToolBlocks(run[j].result.content)[run[j].blk]
       IN  \E ok \in WriteOutcomes :
              LET r == execute_tool(block.name, block.input, docs, today, ok)
              IN  /\ r.wrote \/ ok
                  /\ docs' = r.docs
                  /\ write_faults' = IF ok THEN write_faults ELSE write_faults + 1
                  /\ run' = [run EXCEPT
                               ![j].pc = "tools",
                               ![j].blk = @ + 1,
                               ![j].tools_executed = Append(@, LogRecord(block.name, r.result)),
                               ![j].tool_results =
                                   Append(@, [type |-> "tool_result", tool_use_id |-> block.id,
                                              content |-> json_dumps(r.result)])]
                  /\ tool_calls' = [tool_calls EXCEPT ![j] =
                                       Append(@, [tool |-> block.name, round |-> run[j].rounds + 1,
                                                  id |-> block.id, success |-> r.result.success,
                                                  registered |-> j \in RESPONSES])]
    /\ UNCHANGED <<OtherRunVars, jobs, claude_client, model_calls, call_failures>>

ExecWrite(j) ==
    /\ run[j].pc = "tool_write"
    /\ LET block == ToolBlocks(run[j].result.content)[run[j].blk]
       IN  \E ok \in WriteOutcomes :
              LET r == execute_tool(block.name, block.input, run[j].read, today, ok)
              IN  /\ r.wrote \/ ok
                  /\ docs' = IF r.wrote /\ ok
                             THEN [docs EXCEPT ![DocOf(block.name)] = r.docs[DocOf(block.name)]]
                             ELSE docs
                  /\ write_faults' = IF ok THEN write_faults ELSE write_faults + 1
                  /\ run' = [run EXCEPT
                               ![j].pc = "tools",
                               ![j].blk = @ + 1,
                               ![j].tools_executed = Append(@, LogRecord(block.name, r.result)),
                               ![j].tool_results =
                                   Append(@, [type |-> "tool_result", tool_use_id |-> block.id,
                                              content |-> json_dumps(r.result)])]
                  /\ tool_calls' = [tool_calls EXCEPT ![j] =
                                       Append(@, [tool |-> block.name, round |-> run[j].rounds + 1,
                                                  id |-> block.id, success |-> r.result.success,
                                                  registered |-> j \in RESPONSES])]
    /\ UNCHANGED <<OtherRunVars, jobs, claude_client, model_calls, call_failures>>

\* the tool results go back to the model: client.messages.create, not
\* retried; its response, out of menu, is the next round's
NextCall(j, menu) ==
    /\ run[j].pc = "tools"
    /\ run[j].blk > Len(ToolBlocks(run[j].result.content))
    /\ model_calls' = [model_calls EXCEPT ![j] = @ + 1]
    /\ \/ /\ \E r \in menu :
               run' = [run EXCEPT ![j] = LoopHead(@, r, run[j].rounds + 1)]
          /\ call_failures' = [call_failures EXCEPT ![j] = 0]
       \/ /\ run' = Raise(j, ApiError)
          /\ call_failures' = [call_failures EXCEPT ![j] = 1]
    /\ UNCHANGED <<OtherRunVars, jobs, claude_client, docs, write_faults, tool_calls>>

Reinvoke(j) == NextCall(j, ModelResponses)

\* resp["claude_response"] = "\n".join(text_parts) or "Done - files updated."
FinishText(j) ==
    /\ run[j].pc = "text"
    /\ jobs' = [jobs EXCEPT ![j].claude_response = FinalResponseText(run[j].result.content)]
    /\ run' = [run EXCEPT ![j].pc = "log"]
    /\ UNCHANGED <<OtherRunVars, claude_client, docs, write_faults, model_calls, tool_calls, call_failures>>

\* resp["tools_executed"] = tools_executed
FinishLog(j) ==
    /\ run[j].pc = "log"
    /\ jobs' = [jobs EXCEPT ![j].tools_executed = run[j].tools_executed]
    /\ run' = [run EXCEPT ![j].pc = "status"]
    /\ UNCHANGED <<OtherRunVars, claude_client, docs, write_faults, model_calls, tool_calls, call_failures>>

\* FinishStatus that stores the Job under its handle again
FinishStatus_Reregisters(j) ==
    /\ run[j].pc = "status"
    /\ jobs' = [jobs EXCEPT ![j].status = "complete"]
    /\ RESPONSES' = RESPONSES \cup {j}
    /\ run' = [run EXCEPT ![j].pc = "refresh"]
    /\ UNCHANGED <<rate_timestamps, now, today, api_key, requests, rate_log, last_sweep, disk,
                   writes, claude_client, docs, write_faults, model_calls, tool_calls,
                   call_failures>>

\* resp["status"] = "complete"
FinishStatus(j) ==
    /\ run[j].pc = "status"
    /\ jobs' = [jobs EXCEPT ![j].status = "complete"]
    /\ run' = [run EXCEPT ![j].pc = "refresh"]
    /\ UNCHANGED <<OtherRunVars, claude_client, docs, write_faults, model_calls, tool_calls, call_failures>>

\* the refresh of status.json, still inside the try: the scan raises on a
\* malformed inventory, safe_write_json raises when the write fails
Refresh(j) ==
    /\ run[j].pc = "refresh"
    /\ IF ScanRaises(docs.inventory)
       THEN /\ run' = Raise(j, NotADict)
            /\ UNCHANGED <<docs, write_faults>>
       ELSE \E ok \in WriteOutcomes :
              IF ok
              THEN /\ docs' = [docs EXCEPT !.status = RefreshedStatus(docs.status, docs.inventory, today)]
                   /\ run' = [run EXCEPT ![j].pc = "done"]
                   /\ UNCHANGED write_faults
              ELSE /\ run' = Raise(j, WriteError)
                   /\ write_faults' = write_faults + 1
                   /\ UNCHANGED docs
    /\ UNCHANGED <<OtherRunVars, jobs, claude_client, model_calls, tool_calls, call_failures>>

\* ExceptStatus that also undoes the run's writes
ExceptStatus_Rollback(j) ==
    /\ run[j].pc = "except_status"
    /\ jobs' = [jobs EXCEPT ![j].status = "error"]
    /\ run' = [run EXCEPT ![j].pc = "except_error"]
    /\ docs' = [docs EXCEPT !.meal_plan = "none", !.inventory = <<>>]
    /\ UNCHANGED <<OtherRunVars, claude_client, write_faults, model_calls, tool_calls, call_failures>>

\* except Exception as e: resp["status"] = "error"
ExceptStatus(j) ==
    /\ run[j].pc = "except_status"
    /\ jobs' = [jobs EXCEPT ![j].status = "error"]
    /\ run' = [run EXCEPT ![j].pc = "except_error"]
    /\ UNCHANGED <<OtherRunVars, claude_client, docs, write_faults, model_calls, tool_calls, call_failures>>

\* resp["error"] = str(e)
ExceptError(j) ==
    /\ run[j].pc = "except_error"
    /\ jobs' = [jobs EXCEPT ![j].error = run[j].err]
    /\ run' = [run EXCEPT ![j].pc = "done"]
    /\ UNCHANGED <<OtherRunVars, claude_client, docs, write_faults, model_calls, tool_calls, call_failures>>

RunStep(j) ==
    \/ Start(j) \/ NoClientStatus(j) \/ NoClientError(j) \/ BuildContext(j)
    \/ CallModel(j) \/ Backoff(j) \/ ExecBlock(j) \/ Reinvoke(j)
    \/ FinishText(j) \/ FinishLog(j) \/ FinishStatus(j) \/ Refresh(j)
    \/ ExceptStatus(j) \/ ExceptError(j)

Messages == {"", "generate a plan"}

Next ==
    \/ \E m \in Messages : Chat(m)
    \/ SaveSettings
    \/ NextDay
    \/ \E j \in Handles : RunStep(j)

Spec == Init /\ [][Next]_vars

----------------------------------------------------------------------------
\* Properties of the orchestrator run

Ended(j) == run[j].pc \in {"done", "raised"}

\* the step of j's run that ends it with the Job complete or error
Ends(j) == run[j].pc # "done" /\ run'[j].pc = "done"

\* C1: a Job's status only moves pending -> complete or pending -> error, and
\* once it is complete or error it never changes again, whatever the rest of
\* the run (the status refresh included) does.
C1_StatusIsTerminal ==
    [][\A j \in Handles :
         /\ jobs[j].status = "pending" => jobs'[j].status \in {"pending", "complete", "error"}
         /\ jobs[j].status \in {"complete", "error"} => jobs'[j].status = jobs[j].status]_vars

\* the run left the tool-use loop at the round limit: five rounds were run
\* and the response received after the fifth still asks for tools
HitRoundLimit(j) ==
    /\ run[j].rounds = 5
    /\ run[j].result.stop_reason = "tool_use"
    /\ run[j].pc # "tools"

RefreshErrors == {NotADict, WriteError}

\* C2: the tool-use loop runs tools for at most 5 rounds; the tool requests of
\* the response received after the 5th round are not executed, and the run
\* marks the Job complete with the text of that last response, or with the
\* fallback string when it has no text.
C2_RoundLimit ==
    \A j \in Handles :
        /\ run[j].rounds <= 5
        /\ run[j].pc = "tools" => run[j].rounds < 5
        /\ \A i \in 1..Len(tool_calls[j]) : tool_calls[j][i].round <= 5
        /\ model_calls[j] <= 3 + 5
        /\ HitRoundLimit(j) =>
              /\ run[j].pc \in {"text", "log", "status", "refresh", "done",
                                "except_status", "except_error"}
              /\ run[j].pc # "text" =>
                    jobs[j].claude_response = FinalResponseText(run[j].result.content)
              /\ run[j].pc = "refresh" => jobs[j].status = "complete"
              /\ run[j].pc \in {"except_status", "except_error"} => run[j].err \in RefreshErrors
              /\ run[j].pc = "done" =>
                    \/ jobs[j].status = "complete"
                    \/ jobs[j].status = "error" /\ jobs[j].error \in RefreshErrors

\* a run hit the round limit on a response without text and ended complete
\* with the fallback string, having executed tools in each of its 5 rounds
C2_Witness ==
    \E j \in Handles :
        /\ HitRoundLimit(j)
        /\ run[j].pc = "done"
        /\ jobs[j].status = "complete"
        /\ jobs[j].claude_response = Fallback
        /\ {tool_calls[j][i].round : i \in 1..Len(tool_calls[j])} = 1..5

\* C3: when a run ends, whether its Job ends complete or error, the status
\* document's expiryAlerts section has been recomputed from the inventory as
\* it stands at the end of the run and stamped with today's date.
C3_RefreshedAtEnd ==
    [][\A j \in Handles :
         Ends(j) =>
            /\ ~ScanRaises(docs'.inventory)
            /\ "expiryAlerts" \in DOMAIN docs'.status
            /\ docs'.status.expiryAlerts =
                  Put(scan_inventory_expiry(docs'.inventory, today'), "lastChecked", today')]_vars

\* C4: every failure raised at any step of a run is caught and recorded on
\* the Job as status error with a message; no run ends by propagating an
\* exception while its Job is left pending.
C4_FailuresRecorded ==
    \A j \in Handles :
        /\ run[j].pc # "raised"
        /\ Ended(j) => jobs[j].status \in {"complete", "error"}
        /\ Ended(j) /\ jobs[j].status = "error" => jobs[j].error # None

\* the first model invocation of j's run has not returned a response
FirstCallPending(j) == run[j].result = NoResult

\* C5: the first model invocation of a run is attempted at most 3 times; a
\* failure of attempt 1 or 2 is followed by a backoff and another attempt and
\* does not mark the Job error; the Job is marked error with the underlying
\* message only when the 3rd attempt fails; a success on any attempt goes on
\* to the tool-use loop.
C5_FirstCallRetried ==
    /\ [](\A j \in Handles :
            /\ run[j].attempt <= 2
            /\ run[j].pc = "call" =>
                  /\ model_calls[j] = run[j].attempt
                  /\ call_failures[j] = run[j].attempt
                  /\ jobs[j].status = "pending"
            /\ run[j].pc = "sleep" =>
                  /\ run[j].attempt <= 1
                  /\ model_calls[j] = run[j].attempt + 1
                  /\ jobs[j].status = "pending"
            /\ FirstCallPending(j) /\ run[j].err = ApiError =>
                  /\ model_calls[j] = 3
                  /\ call_failures[j] = 3
                  /\ run[j].pc = "done" => jobs[j].status = "error" /\ jobs[j].error = ApiError)
    /\ [][\A j \in Handles :
            /\ run[j].pc = "call" /\ run'[j].pc # "call" =>
                  \/ /\ run'[j].pc \in {"tools", "text"}
                     /\ run'[j].result \in ModelResponses
                     /\ run'[j].rounds = 0
                     /\ run'[j].pc = "tools" <=> run'[j].result.stop_reason = "tool_use"
                  \/ /\ run'[j].pc = "sleep"
                     /\ run[j].attempt < 2
                  \/ /\ run'[j].pc = "except_status"
                     /\ run[j].attempt = 2
                     /\ run'[j].err = ApiError
            /\ run[j].pc = "sleep" /\ run'[j].pc # "sleep" =>
                  run'[j].pc = "call" /\ run'[j].attempt = run[j].attempt + 1]_vars

\* the third attempt of the first invocation failed and the Job shows it
C5_Witness ==
    \E j \in Handles :
        /\ run[j].pc = "done"
        /\ FirstCallPending(j)
        /\ model_calls[j] = 3
        /\ jobs[j].status = "error"
        /\ jobs[j].error = ApiError

\* C6: a transient failure of any model call of a run, the initial call as
\* well as each re-invocation inside the tool-use loop, is retried up to 3
\* times, and the Job is marked error only when the final attempt fails.
C6_EveryCallRetried ==
    \A j \in Handles : run[j].err = ApiError => call_failures[j] = 3

\* j's run found no credential: it is on, or ended by, the return of lines 411-414
NoClientPath(j) ==
    \/ run[j].pc \in {"nokey_status", "nokey_error"}
    \/ run[j].pc = "done" /\ FirstCallPending(j) /\ run[j].err = None

\* C7: when no model credential is configured at the time a run starts, the
\* Job is marked error with the configuration-guidance message, and the run
\* makes no model call and executes no tool.
C7_NoCredential ==
    /\ [][\A j \in Handles :
            /\ run[j].pc = "start" /\ run'[j].pc # "start" /\ j \in RESPONSES /\ api_key = NoKey
                  => run'[j].pc = "nokey_status"
            /\ run[j].pc = "nokey_status" /\ run'[j].pc # "nokey_status"
                  => run'[j].pc = "nokey_error"
            /\ run[j].pc = "nokey_error" /\ run'[j].pc # "nokey_error"
                  => run'[j].pc = "done"]_vars
    /\ [](\A j \in Handles :
            NoClientPath(j) =>
               /\ model_calls[j] = 0
               /\ tool_calls[j] = <<>>
               /\ run[j].pc # "nokey_status" => jobs[j].status = "error"
               /\ run[j].pc = "done" => jobs[j].error = KeyGuidance)

C7_Witness ==
    \E j \in Handles :
        /\ run[j].pc = "done"
        /\ NoClientPath(j)
        /\ jobs[j].status = "error"
        /\ jobs[j].error = KeyGuidance

WroteMealPlan(j) ==
    \E i \in 1..Len(tool_calls[j]) :
        tool_calls[j][i].tool = "update_meal_plan" /\ tool_calls[j][i].success

\* C8: if a run fails after tools of earlier rounds were executed, every
\* document written by those tools keeps the value the tool wrote (nothing is
\* rolled back), and no tool invocation of the run is executed more than once.
C8_NoRollback ==
    /\ [][\A j \in Handles :
            (run'[j] # run[j] /\ (\/ run'[j].pc \in {"except_status", "except_error"}
                                  \/ run[j].pc \in {"except_status", "except_error"}))
               => docs' = docs]_vars
    /\ [](\A j \in Handles :
            /\ \A a, b \in 1..Len(tool_calls[j]) :
                  a # b => <<tool_calls[j][a].round, tool_calls[j][a].id>>
                             # <<tool_calls[j][b].round, tool_calls[j][b].id>>
            /\ WroteMealPlan(j) => docs.meal_plan = "week-plan")

\* a run ended in error after a tool wrote the meal plan, which is still there
C8_Witness ==
    \E j \in Handles :
        /\ run[j].pc = "done"
        /\ jobs[j].status = "error"
        /\ WroteMealPlan(j)
        /\ docs.meal_plan = "week-plan"

\* C9: when a Job ends complete, its tool log holds exactly one record per
\* tool invocation the run executed, across all rounds, in execution order.
C9_LogComplete ==
    \A j \in Handles :
        jobs[j].status = "complete" =>
           /\ Len(jobs[j].tools_executed) = Len(tool_calls[j])
           /\ \A i \in 1..Len(tool_calls[j]) :
                 /\ jobs[j].tools_executed[i].tool = tool_calls[j][i].tool
                 /\ jobs[j].tools_executed[i].success = tool_calls[j][i].success

\* a run of several rounds ended complete with a log of different tools
C9_Witness ==
    \E j \in Handles :
        /\ run[j].pc = "done"
        /\ jobs[j].status = "complete"
        /\ run[j].rounds >= 2
        /\ Len(jobs[j].tools_executed) >= 3
        /\ \E a, b \in 1..Len(jobs[j].tools_executed) :
              jobs[j].tools_executed[a].tool # jobs[j].tools_executed[b].tool

\* C10: each tool invocation is recorded in the Job's tool log as it is
\* executed: after a run that ends in error, the Job's tool log still holds
\* one record for every tool the run executed before the failure.
C10_LogSurvivesError ==
    \A j \in Handles :
        run[j].pc = "done" /\ jobs[j].status = "error" =>
            Len(jobs[j].tools_executed) = Len(tool_calls[j])

\* C11: every record of a Job's tool log carries the tool name, the input
\* mapping the model supplied and the result (success flag with message or
\* error).
C11_LogRecordHasInput ==
    \A j \in Handles :
        jobs[j] # NoJob =>
        \A i \in 1..Len(jobs[j].tools_executed) :
            LET rec == jobs[j].tools_executed[i]
            IN  /\ "tool" \in DOMAIN rec
                /\ "input" \in DOMAIN rec
                /\ "success" \in DOMAIN rec
                /\ IF rec.success THEN "message" \in DOMAIN rec ELSE "error" \in DOMAIN rec

\* the ids of the tools a response requests, in the order of its content
RECURSIVE RequestedIds(_)
RequestedIds(content) ==
    IF content = <<>> THEN <<>>
    ELSE IF Head(content).type = "tool_use"
         THEN <<Head(content).id>> \o RequestedIds(Tail(content))
         ELSE RequestedIds(Tail(content))

\* the execute_tool calls j's run has made in its current round
RoundCalls(j) ==
    SelectSeq(tool_calls[j], LAMBDA c : c.round = run[j].rounds + 1)

\* C12: within one round the tools a response requests are executed one
\* after another in the order they appear in the response, and the tool
\* results queued for the model are in that same order, one per requested tool.
C12_RoundOrder ==
    \A j \in Handles :
        run[j].pc = "tools" =>
            LET ids == RequestedIds(run[j].result.content)
                n == run[j].blk - 1
            IN  /\ n <= Len(ids)
                /\ Len(RoundCalls(j)) = n
                /\ Len(run[j].tool_results) = n
                /\ \A i \in 1..n :
                      /\ RoundCalls(j)[i].id = ids[i]
                      /\ run[j].tool_results[i].tool_use_id = ids[i]
                      /\ run[j].tool_results[i].type = "tool_result"

\* both tools of a response that requests two have run, and their two
\* results wait to be sent back
C12_Witness ==
    \E j \in Handles :
        /\ run[j].pc = "tools"
        /\ run[j].result = PlanThenUnknown
        /\ run[j].blk = 3
        /\ Len(run[j].tool_results) = 2
        /\ run[j].tool_results[1].tool_use_id = "t2"
        /\ run[j].tool_results[2].tool_use_id = "t3"

\* C13: a tool invocation that fails never raises out of execute_tool: it
\* yields a {success: false, error} result that is logged and queued for the
\* model like any other, the run goes on with the remaining tools and
\* rounds, and the failure alone does not move the Job to error.
C13_ToolFailureContained ==
    \A j \in Handles :
        /\ Len(run[j].tools_executed) = Len(tool_calls[j])
        /\ \A i \in 1..Len(tool_calls[j]) :
              LET rec == run[j].tools_executed[i]
              IN  /\ rec.success = tool_calls[j][i].success
                  /\ ~rec.success => "error" \in DOMAIN rec
        /\ run[j].pc = "tools" =>
              /\ Len(run[j].tool_results) = Len(RoundCalls(j))
              /\ \A i \in 1..Len(run[j].tool_results) :
                    LET sent == run[j].tool_results[i].content.json
                    IN  /\ sent.success = RoundCalls(j)[i].success
                        /\ ~sent.success => "error" \in DOMAIN sent
        /\ (run[j].pc = "except_status" /\ jobs[j].status = "pending" /\ tool_calls[j] # <<>>)
              => run[j].err = ApiError

\* a tool failed, a later tool of the same round and a tool of a later round
\* still ran, and the Job ended complete
C13_Witness ==
    \E j \in Handles :
        /\ run[j].pc = "done"
        /\ jobs[j].status = "complete"
        /\ \E a, b, c \in 1..Len(tool_calls[j]) :
              /\ a < b /\ b < c
              /\ ~tool_calls[j][a].success
              /\ tool_calls[j][b].round = tool_calls[j][a].round
              /\ tool_calls[j][c].round > tool_calls[j][a].round

----------------------------------------------------------------------------
\* The rate limiter under load: requests to both endpoints while the clock
\* advances. check_rate_limit() runs before the body is read, so what it
\* decides does not depend on the request.

RateMessages == {"", "generate a plan"}
RateActions == {"send_email", "scan_expiry"}
RateSteps == {20}

NextRate ==
    \/ \E m \in RateMessages : requests < MaxCalls /\ chat(m)
    \/ \E a \in RateActions : requests < MaxCalls /\ action(a)
    \/ \E d \in RateSteps : now + d <= MaxRateTicks * d /\ Tick(d)

SpecRate == Init /\ [][NextRate]_vars

\* the calls check_rate_limit() allowed in the window that ends with call i
AllowedInWindow(i) ==
    {k \in 1..i : /\ rate_log[k].allowed
                  /\ rate_log[k].at > rate_log[i].at - RATE_LIMIT_WINDOW}

\* C14: starting from an empty limiter, 10 calls within 60 seconds are all
\* allowed, an 11th call within the same 60-second window is rejected, and
\* once the window has elapsed since the accepted calls, calls are allowed
\* again.
C14_TenPerWindow ==
    \A i \in 1..Len(rate_log) :
        /\ i <= 10 => rate_log[i].allowed
        /\ (i = 11 /\ rate_log[11].at < rate_log[1].at + RATE_LIMIT_WINDOW)
              => ~rate_log[i].allowed
        /\ (\A k \in 1..(i - 1) :
               rate_log[k].allowed => rate_log[i].at >= rate_log[k].at + RATE_LIMIT_WINDOW)
              => rate_log[i].allowed

\* ten calls were allowed within a window, the eleventh was rejected in it,
\* and the twelfth, made once the window had elapsed, was allowed
C14_Witness ==
    /\ Len(rate_log) = 12
    /\ \A i \in 1..10 : rate_log[i].allowed
    /\ rate_log[10].at > rate_log[1].at
    /\ rate_log[11].at < rate_log[1].at + RATE_LIMIT_WINDOW
    /\ ~rate_log[11].allowed
    /\ rate_log[12].at >= rate_log[10].at + RATE_LIMIT_WINDOW
    /\ rate_log[12].allowed

\* the times of the allowed calls of a log, oldest first
RECURSIVE AllowedTimes(_)
AllowedTimes(log) ==
    IF log = <<>> THEN <<>>
    ELSE IF Head(log).allowed THEN <<Head(log).at>> \o AllowedTimes(Tail(log))
         ELSE AllowedTimes(Tail(log))

\* C15: after any sequence of check_rate_limit calls at non-decreasing times
\* the timestamp sequence holds at most 10 entries, a rejected call appends
\* nothing, and in every sliding window of 60 seconds at most 10 calls were
\* allowed, counted across /api/chat and /api/action.
C15_WindowInvariant ==
    /\ Len(rate_timestamps) <= RATE_LIMIT_MAX
    /\ Len(rate_log) = requests
    /\ rate_log # <<>> =>
          rate_timestamps = Pruned(AllowedTimes(rate_log), rate_log[Len(rate_log)].at)
    /\ \A i \in 1..Len(rate_log) : Cardinality(AllowedInWindow(i)) <= RATE_LIMIT_MAX

\* a call was rejected with the sequence full, and calls of both endpoints
\* had been counted
C15_Witness ==
    /\ Len(rate_timestamps) = RATE_LIMIT_MAX
    /\ \E i \in 1..Len(rate_log) : ~rate_log[i].allowed
    /\ \E h \in Handles : jobs[h] # NoJob /\ jobs[h].user_message = ActionPrompt("scan_expiry")
    /\ rate_log[Len(rate_log)].at >= RATE_LIMIT_WINDOW

----------------------------------------------------------------------------
\* The registry under the sweep: two Jobs submitted through both endpoints,
\* their runs, the clock and cleanup_loop. The model answers with one round
\* of tools at most, and neither a model call nor a write fails.

TwoHandles == {1, 2}
SweepMessages == {"generate a plan"}
SweepActions == {"generate_meal_plan"}
SweepSteps == {1800}

SweepResponses == {FinalText, AddMilk}

\* the step is a model call of j that returned a response
Answered(j) == call_failures'[j] = 0

\* the step's write, if it made one, went through
Written == write_faults' = write_faults

SweepStep(j) ==
    \/ Start(j) \/ NoClientStatus(j) \/ NoClientError(j) \/ BuildContext(j)
    \/ FirstCall(j, SweepResponses) /\ Answered(j)
    \/ ExecBlock(j) /\ Written
    \/ NextCall(j, {FinalText}) /\ Answered(j)
    \/ FinishText(j) \/ FinishLog(j) \/ FinishStatus(j)
    \/ Refresh(j) /\ Written

InitSweep == Boot(TwoHandles)

NextSweep ==
    \/ \E m \in SweepMessages : chat(m)
    \/ \E a \in SweepActions : action(a)
    \/ \E d \in SweepSteps : now + d <= MaxSweepTicks * d /\ Tick(d)
    \/ cleanup_loop
    \/ \E j \in TwoHandles : SweepStep(j)

SpecSweep == InitSweep /\ [][NextSweep]_vars

\* the handle h has been returned to a client
Issued(h) == jobs[h] # NoJob

\* the Job of h has left the registry
Swept(h) == Issued(h) /\ h \notin RESPONSES

\* the step is a pass of cleanup_loop
SweepTick == last_sweep' # last_sweep

\* C16: at each sweep tick every Job created more than 1 hour before the
\* tick is removed from the registry whatever its status, every younger Job
\* is kept, and polling a removed handle returns not-found (404).
C16_SweepRemovesOld ==
    [][SweepTick =>
         \A h \in RESPONSES :
            /\ now - jobs[h].created > RESPONSE_TTL =>
                  /\ h \notin RESPONSES'
                  /\ get_chat_response(h)'.code = 404
            /\ now - jobs[h].created <= RESPONSE_TTL =>
                  /\ h \in RESPONSES'
                  /\ get_chat_response(h)'.code = 200]_vars

\* a sweep has just removed a Job that was still pending and kept a
\* complete one that is exactly one hour old
C16_Witness ==
    /\ last_sweep = now
    /\ \E h, k \in DOMAIN jobs :
          /\ Swept(h) /\ jobs[h].status = "pending"
          /\ now - jobs[h].created > RESPONSE_TTL
          /\ get_chat_response(h).code = 404
          /\ k \in RESPONSES /\ jobs[k].status = "complete"
          /\ now - jobs[k].created = RESPONSE_TTL
          /\ get_chat_response(k).code = 200

\* j's run is in progress: it holds its Job and has not ended
InProgress(j) == run[j].pc \notin {"none", "start", "done", "raised"}

\* C17: if the sweep removes a Job while its run is in progress, the run is
\* not interrupted (its tools still execute and commit to the documents),
\* its later completion or error does not put the Job back into the
\* registry, and polling the handle keeps returning not-found.
C17_SweptRunGoesOn ==
    /\ [][SweepTick => run' = run /\ jobs' = jobs /\ docs' = docs]_vars
    /\ [][\A h \in DOMAIN jobs :
            Swept(h) =>
               /\ h \notin RESPONSES'
               /\ get_chat_response(h)'.code = 404
               /\ (run[h].pc = "tools" /\ run'[h].blk = run[h].blk + 1) =>
                     LET block == ToolBlocks(run[h].result.content)[run[h].blk]
                     IN  /\ docs' = execute_tool(block.name, block.input, docs, today, TRUE).docs
                         /\ Len(run'[h].tools_executed) = Len(run[h].tools_executed) + 1
               /\ (InProgress(h) /\ run'[h].pc = "done") =>
                     jobs'[h].status \in {"complete", "error"}]_vars

\* a run whose Job had been swept executed its tool, committed the item to
\* the inventory and ended complete, and its handle is still not found
C17_Witness ==
    \E h \in DOMAIN jobs :
        /\ Swept(h)
        /\ run[h].pc = "done"
        /\ jobs[h].status = "complete"
        /\ get_chat_response(h).code = 404
        /\ \E i \in 1..Len(tool_calls[h]) :
              ~tool_calls[h][i].registered /\ tool_calls[h][i].success
        /\ \E i \in 1..Len(docs.inventory) : docs.inventory[i] = Milk

\* C18: an accepted POST /api/chat or /api/action stores a pending Job under
\* a fresh handle before it returns the handle and before the run for that
\* handle starts; from then until the Job is swept, polling the handle never
\* returns not-found.
C18_StoredBeforeReturn ==
    /\ [][\A h \in DOMAIN jobs :
            /\ (~Issued(h) /\ Issued(h)') =>
                  /\ h \notin RESPONSES /\ h \in RESPONSES'
                  /\ run[h].pc = "none" /\ run'[h].pc = "start"
                  /\ get_chat_response(h)' =
                        [code |-> 200, status |-> "pending", claude_response |-> None,
                         tools_executed |-> <<>>, error |-> None]
            /\ (h \in RESPONSES /\ h \notin RESPONSES') =>
                  SweepTick /\ now - jobs[h].created > RESPONSE_TTL]_vars
    /\ [](\A h \in DOMAIN jobs :
            /\ run[h].pc # "none" => Issued(h)
            /\ run[h].pc = "start" => jobs[h].status = "pending"
            /\ (Issued(h) /\ get_chat_response(h).code = 404) =>
                  last_sweep - jobs[h].created > RESPONSE_TTL)

\* a Job submitted through /api/action is an hour old, has survived a sweep
\* and is still polled as pending, its run not yet started
C18_Witness ==
    \E h \in DOMAIN jobs :
        /\ run[h].pc = "start"
        /\ jobs[h].user_message = ActionPrompt("generate_meal_plan")
        /\ now - jobs[h].created = RESPONSE_TTL
        /\ last_sweep = now
        /\ get_chat_response(h).code = 200
        /\ get_chat_response(h).status = "pending"

----------------------------------------------------------------------------
\* Two runs in flight at once, each in its own worker thread, with
\* execute_tool taken as a read step and a write step

RaceResponses == {FinalText, AddMilk, AddRice}

RaceStep(j) ==
    \/ Start(j) \/ NoClientStatus(j) \/ NoClientError(j) \/ BuildContext(j)
    \/ FirstCall(j, RaceResponses) \/ Backoff(j)
    \/ ExecRead(j) \/ ExecWrite(j) \/ NextCall(j, {FinalText})
    \/ FinishText(j) \/ FinishLog(j) \/ FinishStatus(j) \/ Refresh(j)
    \/ ExceptStatus(j) \/ ExceptError(j)

InitRace == Boot(TwoHandles)

NextRace ==
    \/ \E m \in SweepMessages : chat(m)
    \/ \E j \in TwoHandles : RaceStep(j)

SpecRace == InitRace /\ [][NextRace]_vars

\* the update_inventory add calls that returned success, over all runs
SuccessfulAdds ==
    {<<j, i>> \in TwoHandles \X (1..max_rounds) :
        i <= Len(tool_calls[j]) /\ tool_calls[j][i].tool = "update_inventory"
                                /\ tool_calls[j][i].success}

\* C19: no lock guards the read-modify-write of a document: what an
\* update_inventory add writes is the inventory its run read earlier plus its
\* items, whatever was written in between, so with two runs in flight both
\* adds can return success while the inventory keeps the item of only one.
C19_LastWriterWins ==
    /\ [][\A j \in TwoHandles :
            (run[j].pc = "tool_write" /\ run'[j].pc = "tools") =>
               LET block == ToolBlocks(run[j].result.content)[run[j].blk]
                   returned == run'[j].tools_executed[Len(run'[j].tools_executed)]
               IN  IF returned.success
                   THEN docs'.inventory =
                           AddItems(run[j].read.inventory, block.input.items, today)
                   ELSE docs' = docs]_vars
    /\ [](Len(docs.inventory) <= Cardinality(SuccessfulAdds))

\* both runs ended complete, one added Milk and the other Rice, both calls
\* returned success, and the inventory holds only one of the two items
C19_Witness ==
    /\ \A j \in TwoHandles : run[j].pc = "done" /\ jobs[j].status = "complete"
    /\ run[1].tools_executed = <<LogRecord("update_inventory", Success("Inventory add: 1 items"))>>
    /\ run[2].tools_executed = run[1].tools_executed
    /\ {tool_calls[1][1].id, tool_calls[2][1].id} = {"t1", "t5"}
    /\ Len(docs.inventory) = 1

----------------------------------------------------------------------------
\* safe_write_json(filename, data) step by step, for calls that overlap on
\* one document file

\* what the calls write: two documents, and a value json cannot serialise
WriteData == {"a", "b", "set()"}

\* json.dump(data, f): the chunks it writes, and whether the encoder raises
\* TypeError after them
json_dump(data) ==
    IF data = "set()" THEN [chunks |-> <<"[">>, raises |-> TRUE]
    ELSE [chunks |-> <<"[", data, "]">>, raises |-> FALSE]

OtherWriteVars ==
    <<RESPONSES, jobs, rate_timestamps, now, today, api_key, claude_client, docs, run,
      write_faults, requests, model_calls, tool_calls, call_failures, rate_log, last_sweep>>

\* fd, tmp = tempfile.mkstemp(dir=DATA_DIR, suffix=".tmp"), before the try:
\* an empty file under a name no other call holds, or OSError
mkstemp(w, data) ==
    /\ writes[w].pc = "idle"
    /\ \/ /\ disk' = [disk EXCEPT ![TmpName(w)] = File(<<>>)]
          /\ writes' = [writes EXCEPT ![w] = [pc |-> "dump", data |-> data, tmp |-> TmpName(w),
                                              k |-> 0, err |-> None]]
       \/ /\ writes' = [writes EXCEPT ![w] = [pc |-> "raised", data |-> data, tmp |-> None,
                                              k |-> 0, err |-> "OSError"]]
          /\ UNCHANGED disk
    /\ UNCHANGED OtherWriteVars

\* WriteChunk on a file opened at the target path itself
WriteChunk_InPlace(w) ==
    /\ writes[w].pc = "dump"
    /\ writes[w].k < Len(json_dump(writes[w].data).chunks)
    /\ \/ /\ disk' = [disk EXCEPT ![Target] =
                         File(SubSeq(json_dump(writes[w].data).chunks, 1, writes[w].k + 1))]
          /\ writes' = [writes EXCEPT ![w].k = @ + 1]
       \/ /\ writes' = [writes EXCEPT ![w].pc = "cleanup"]
          /\ UNCHANGED disk
    /\ UNCHANGED OtherWriteVars

\* json.dump writes its next chunk to the temporary file, or the write raises
WriteChunk(w) ==
    /\ writes[w].pc = "dump"
    /\ writes[w].k < Len(json_dump(writes[w].data).chunks)
    /\ \/ /\ disk' = [disk EXCEPT ![writes[w].tmp] =
                         File(Append(@.chunks, json_dump(writes[w].data).chunks[writes[w].k + 1]))]
          /\ writes' = [writes EXCEPT ![w].k = @ + 1]
       \/ /\ writes' = [writes EXCEPT ![w].pc = "cleanup"]
          /\ UNCHANGED disk
    /\ UNCHANGED OtherWriteVars

\* the end of json.dump: the encoder raises on a value it cannot serialise;
\* otherwise the file is closed and os.replace(tmp, fp) renames it onto the
\* target in one step, or raises
Replace(w) ==
    /\ writes[w].pc = "dump"
    /\ writes[w].k = Len(json_dump(writes[w].data).chunks)
    /\ IF json_dump(writes[w].data).raises
       THEN /\ writes' = [writes EXCEPT ![w].pc = "cleanup"]
            /\ UNCHANGED disk
       ELSE \/ /\ disk' = [disk EXCEPT ![Target] = disk[writes[w].tmp],
                                        ![writes[w].tmp] = NoFile]
               /\ writes' = [writes EXCEPT ![w].pc = "returned"]
            \/ /\ writes' = [writes EXCEPT ![w].pc = "cleanup"]
               /\ UNCHANGED disk
    /\ UNCHANGED OtherWriteVars

\* except Exception: if os.path.exists(tmp): os.remove(tmp); raise
\* HTTPException(500, "Write error: ...")
Cleanup(w) ==
    /\ writes[w].pc = "cleanup"
    /\ disk' = [disk EXCEPT ![writes[w].tmp] = NoFile]
    /\ writes' = [writes EXCEPT ![w].pc = "raised", ![w].err = WriteError]
    /\ UNCHANGED OtherWriteVars

\* the call is over and its caller goes on
EndWrite(w) ==
    /\ writes[w].pc \in {"returned", "raised"}
    /\ writes' = [writes EXCEPT ![w] = NoWrite]
    /\ UNCHANGED <<OtherWriteVars, disk>>

NextWrite ==
    \E w \in WriteCalls :
        \/ \E data \in WriteData : mkstemp(w, data)
        \/ WriteChunk(w)
        \/ Replace(w)
        \/ Cleanup(w)
        \/ EndWrite(w)

SpecWrite == Init /\ [][NextWrite]_vars

\* the file holds all of some document, as json.dump writes it
Complete(file) ==
    /\ file.exists
    /\ \E data \in WriteData :
          ~json_dump(data).raises /\ file.chunks = json_dump(data).chunks

\* C20: at every moment, also after a write that fails during serialization
\* or rename and with writers that overlap, a document's file holds its
\* previous complete content or the complete content of some write, never a
\* partial one; a failed write leaves the target unchanged, removes its
\* temporary file and signals a write error.
C20_AtomicWrite ==
    /\ [](disk[Target] = NoFile \/ Complete(disk[Target]))
    /\ [](\A w \in WriteCalls :
            /\ writes[w].pc \in {"idle", "returned", "raised"} => disk[TmpName(w)] = NoFile
            /\ (writes[w].pc = "raised" /\ writes[w].tmp # None) => writes[w].err = WriteError)
    /\ [][\A w \in WriteCalls :
            (writes[w].pc # "raised" /\ writes'[w].pc = "raised") => disk'[Target] = disk[Target]]_vars
    /\ [][disk'[Target] # disk[Target] =>
            \E w \in WriteCalls :
               /\ writes[w].pc = "dump" /\ writes'[w].pc = "returned"
               /\ disk'[Target] = File(json_dump(writes[w].data).chunks)]_vars

\* a write failed after it had written part of its document and has signalled
\* the write error, its temporary file is gone, the target holds what an
\* earlier write left, and another write is half way through its own file
C20_Witness ==
    \E w, v \in WriteCalls :
        /\ writes[w].pc = "raised"
        /\ writes[w].err = WriteError
        /\ writes[w].data = "a"
        /\ writes[w].k >= 1
        /\ disk[TmpName(w)] = NoFile
        /\ disk[Target] = File(json_dump("b").chunks)
        /\ writes[v].pc = "dump"
        /\ writes[v].data = "a"
        /\ disk[TmpName(v)] = File(<<"[", "a">>)

----------------------------------------------------------------------------
\* The expiry scan, over every inventory of up to MaxItems items the data
\* directory can hold at startup and every day of the model

\* an item whose bestBefore is the day d
Dated(d) ==
    [kind |-> "dict", name |-> "item" \o ToString(d), amount |-> "1", unit |-> "pc",
     category |-> "fresh", bestBefore |-> d]
\* an item whose bestBefore does not parse; its expiry is never looked at
Jam == [kind |-> "dict", name |-> "Jam", amount |-> "1", unit |-> "jar",
        category |-> "pantry", bestBefore |-> BadDate, expiry |-> 0]
\* an item with an empty bestBefore and a date under "expiry"
Eggs == [kind |-> "dict", name |-> "Eggs", amount |-> "6", unit |-> "pc",
         category |-> "fresh", bestBefore |-> NoDate, expiry |-> 2]

ScanItems == {Dated(d) : d \in 0..5} \cup {Rice, Jam, Eggs}
ScanInventories == UNION {[1..n -> ScanItems] : n \in 0..MaxItems}

\* one pass of expiry_scan_loop(): scan, write status.json; a scan or a write
\* that raises is logged and the pass ends
expiry_scan_loop ==
    /\ \E ok \in WriteOutcomes :
          IF ScanRaises(docs.inventory)
          THEN UNCHANGED <<docs, write_faults>>
          ELSE IF ok
          THEN /\ docs' = [docs EXCEPT
                             !.status = RefreshedStatus(docs.status, docs.inventory, today)]
               /\ UNCHANGED write_faults
          ELSE /\ write_faults' = write_faults + 1
               /\ UNCHANGED docs
    /\ UNCHANGED <<OtherRunVars, jobs, claude_client, run, model_calls, tool_calls,
                   call_failures>>

InitScan == \E inv \in ScanInventories : BootOn(Handles, inv)

NextScan ==
    \/ expiry_scan_loop
    \/ NextDay

SpecScan == InitScan /\ [][NextScan]_vars

\* the indices of the inventory, in order
Indices(inv) == [i \in 1..Len(inv) |-> i]

\* C21: the expiry scan puts every item in exactly one band, by the days
\* between the day of the scan and the item's expiry date: red at one day or
\* less (past dates included), amber at two or three days, green at four or
\* more; an item with no expiry date or one that does not parse gets
\* daysUntil 999 and is green; the items of a band are in inventory order.
C21_ExpiryBands ==
    LET alerts == docs.status.expiryAlerts
        inv == docs.inventory
        Days(i) == IF ExpiryVal(inv[i]) \in {NoDate, BadDate} THEN 999
                   ELSE ExpiryVal(inv[i]) - alerts.lastChecked
        Band(i) == IF Days(i) <= 1 THEN "red"
                   ELSE IF Days(i) \in {2, 3} THEN "amber"
                   ELSE IF Days(i) >= 4 THEN "green"
                   ELSE "none"
        Of(band) == SelectSeqBy(Indices(inv), {i \in 1..Len(inv) : Band(i) = band})
    IN  \A band \in {"red", "amber", "green"} :
           /\ Len(alerts[band]) = Len(Of(band))
           /\ \A k \in 1..Len(alerts[band]) :
                 /\ alerts[band][k].item = inv[Of(band)[k]].name
                 /\ alerts[band][k].daysUntil = Days(Of(band)[k])

\* a scan made after midnight put an item past its date and an item one day
\* before it in red, in inventory order, and an item with no usable date in green
C21_Witness ==
    LET alerts == docs.status.expiryAlerts
    IN  /\ alerts.lastChecked = 1
        /\ Len(alerts.red) = 2 /\ Len(alerts.green) = 1
        /\ alerts.red[1].daysUntil = 1 /\ alerts.red[2].daysUntil < 0
        /\ alerts.green[1].daysUntil = 999
        /\ docs.inventory[1].name = alerts.red[1].item
        /\ docs.inventory[3].name = alerts.red[2].item

----------------------------------------------------------------------------
\* The inventory tools and POST /api/inventory, over the inventories found
\* at startup and over tool requests of every shape, well-formed or not

Tomato == [kind |-> "dict", name |-> "Tomato", amount |-> "4", unit |-> "pc",
           category |-> "fresh"]
\* two of the stored items have the name milk, in different case
Stocked == <<Put(Rice, "addedDate", 0), Milk, [Milk EXCEPT !.name = "milk", !.amount = "3"]>>
ToolInventories == {<<>>, <<Milk>>, Stocked}

\* an update of milk, of an item not in stock and of that item again
UpdateStock ==
    [stop_reason |-> "tool_use",
     content |-> <<ToolUse("t6", "update_inventory",
                      [action |-> "update",
                       items |-> <<[kind |-> "dict", name |-> "milk", amount |-> "2"],
                                   Tomato,
                                   [kind |-> "dict", name |-> "tomato", bestBefore |-> 3]>>])>>]
\* an action the tool does not know
ClearInventory ==
    [stop_reason |-> "tool_use",
     content |-> <<ToolUse("t7", "update_inventory", [action |-> "clear", items |-> <<Milk>>])>>]
\* inputs that do not follow the schema: no action, an item that is a string,
\* items that are a number
Malformed ==
    [stop_reason |-> "tool_use",
     content |-> <<ToolUse("t8", "update_inventory", [items |-> <<Milk>>]),
                   ToolUse("t9", "update_inventory", [action |-> "add", items |-> <<Junk>>]),
                   ToolUse("t10", "update_inventory", [action |-> "clear", items |-> NoList]),
                   ToolUse("t11", "update_inventory", [action |-> "replace_all", items |-> NoList])>>]

ToolResponses == {FinalText, AddRice, UpdateStock, ClearInventory, Malformed, PlanThenUnknown}

\* bodies of POST /api/inventory; the last lacks required keys
PostItems == {Rice, Milk, [kind |-> "dict", name |-> "Salt"]}

\* POST /api/inventory with body item: 400 when a required key is missing;
\* else the item, stamped, is appended and written, and the expiry alerts of
\* status.json are refreshed; whatever raises on the way ends the request
add_inventory_item(item) ==
    /\ Len(docs.inventory) < MaxItems
    /\ \E ok1, ok2 \in WriteOutcomes :
          LET stamped == IF "addedDate" \in DOMAIN item THEN item
                         ELSE Put(item, "addedDate", today)
              inv == Append(docs.inventory, stamped)
          IN  IF ~({"name", "amount", "unit", "category"} \subseteq DOMAIN item)
                 \/ ~IsList(docs.inventory)
              THEN UNCHANGED <<docs, write_faults>>
              ELSE IF ~ok1
              THEN /\ write_faults' = write_faults + 1
                   /\ UNCHANGED docs
              ELSE IF ScanRaises(inv)
              THEN /\ docs' = [docs EXCEPT !.inventory = inv]
                   /\ UNCHANGED write_faults
              ELSE IF ~ok2
              THEN /\ docs' = [docs EXCEPT !.inventory = inv]
                   /\ write_faults' = write_faults + 1
              ELSE /\ docs' = [docs EXCEPT
                                 !.inventory = inv,
                                 !.status = RefreshedStatus(docs.status, inv, today)]
                   /\ UNCHANGED write_faults
    /\ UNCHANGED <<OtherRunVars, jobs, claude_client, run, model_calls, tool_calls,
                   call_failures>>

ToolStep(j) ==
    \/ Start(j) \/ NoClientStatus(j) \/ NoClientError(j) \/ BuildContext(j)
    \/ FirstCall(j, ToolResponses) /\ Answered(j)
    \/ ExecBlock(j)
    \/ NextCall(j, {FinalText}) /\ Answered(j)
    \/ FinishText(j) \/ FinishLog(j) \/ FinishStatus(j) \/ Refresh(j)
    \/ ExceptStatus(j) \/ ExceptError(j)

InitTools == \E inv \in ToolInventories : BootOn(Handles, inv)

NextTools ==
    \/ \E m \in SweepMessages : chat(m)
    \/ \E item \in PostItems : add_inventory_item(item)
    \/ NextDay
    \/ \E j \in Handles : ToolStep(j)

SpecTools == InitTools /\ [][NextTools]_vars

\* the step is an execute_tool call of the run j; the block it executes and
\* the result the call returned
Executes(j) == run[j].pc = "tools" /\ tool_calls'[j] # tool_calls[j]
CalledBlock(j) == ToolBlocks(run[j].result.content)[run[j].blk]
Returned(j) == run'[j].tools_executed[Len(run'[j].tools_executed)]

\* the step is an update_inventory call of j with one of these actions
UpdatesInventory(j, actions) ==
    /\ Executes(j)
    /\ CalledBlock(j).name = "update_inventory"
    /\ "action" \in DOMAIN CalledBlock(j).input
    /\ CalledBlock(j).input.action \in actions

\* the step is a POST /api/inventory that stored its item
Posted == run' = run /\ docs'.inventory # docs.inventory

\* every item of the inventory carries an addedDate
Stamped(inv) == \A i \in 1..Len(inv) : IsDict(inv[i]) => "addedDate" \in DOMAIN inv[i]

\* C22: an item created by update_inventory with action add, by action update
\* when no stored name matches, or by POST /api/inventory is stored with an
\* addedDate (today's date when the input has none): such a step leaves an
\* inventory whose items all had an addedDate with items that all have one.
C22_AddedDateStamped ==
    [][(/\ Stamped(docs.inventory)
        /\ IsList(docs.inventory)
        /\ Posted \/ \E j \in Handles : UpdatesInventory(j, {"add", "update"}))
          => /\ Stamped(docs'.inventory)
             /\ \A i \in 1..Len(docs'.inventory) :
                   (i > Len(docs.inventory) /\ IsDict(docs'.inventory[i])) =>
                      \/ docs'.inventory[i].addedDate = today
                      \/ docs'.inventory[i] \in PostItems \cup {Milk}]_vars

\* what the update of a stored inventory by a list of items is to give: each
\* item in turn is laid over the first stored item of the same name, case
\* ignored, or goes to the end when there is none
RECURSIVE Updated(_, _)
Updated(inv, items) ==
    IF items = <<>> THEN inv
    ELSE LET new == Head(items)
             same == {i \in 1..Len(inv) : Lower(inv[i].name) = Lower(new.name)}
             first == CHOOSE i \in same : \A k \in same : i <= k
             laid == [k \in (DOMAIN inv[first]) \cup (DOMAIN new) |->
                         IF k \in DOMAIN new THEN new[k] ELSE inv[first][k]]
         IN  Updated(IF same = {} THEN inv \o <<new>>
                     ELSE [i \in 1..Len(inv) |-> IF i = first THEN laid ELSE inv[i]],
                     Tail(items))

\* C23: update_inventory with action update takes the input items in order:
\* each is shallow-merged over the first stored item whose name equals its
\* name ignoring case, every other item and the order staying as they were,
\* or appended when no name matches; the call reports success.
C23_UpdateMerges ==
    [][\A j \in Handles :
          (/\ UpdatesInventory(j, {"update"})
           /\ AllDicts(docs.inventory)
           /\ write_faults' = write_faults)
             => /\ Returned(j).success
                /\ docs'.inventory = Updated(docs.inventory, CalledBlock(j).input.items)]_vars

\* the stock of three after the update: the first milk took the new amount
\* and kept its date, the second milk is untouched, and the tomato that was
\* appended took the date of the third input item
C23_Witness ==
    /\ Len(docs.inventory) = 4
    /\ docs.inventory[1] = Stocked[1]
    /\ docs.inventory[2] = [Milk EXCEPT !.name = "milk", !.amount = "2"]
    /\ docs.inventory[3] = Stocked[3]
    /\ docs.inventory[4] = [kind |-> "dict", name |-> "tomato", amount |-> "4", unit |-> "pc",
                            category |-> "fresh", bestBefore |-> 3]
    /\ run[1].tools_executed =
          <<LogRecord("update_inventory", Success("Inventory update: 3 items"))>>

----------------------------------------------------------------------------
\* Termination of the run and what a polling client can see of it

\* C24: a run that has started does not stop with its Job pending: while the
\* Job is pending the run has a next step to take, and the retry loop and the
\* tool loop bound the model calls of a run, so that with model calls that
\* return or raise the Job reaches complete or error.
C24_RunLeavesPending ==
    \A j \in Handles :
        /\ model_calls[j] <= max_attempts + max_rounds
        /\ (run[j].pc # "none" /\ jobs[j].status = "pending") => ENABLED RunStep(j)

\* C25: what GET /api/chat/{id} returns is consistent at every moment of the
\* run: with status complete the claude_response is a non-empty string and
\* tools_executed is the run's whole tool log, and with status error the
\* error field is not null.
C25_PollSeesWholeJob ==
    \A h \in RESPONSES :
        LET seen == get_chat_response(h)
        IN  /\ seen.status = "complete" =>
                  /\ seen.claude_response \notin {None, ""}
                  /\ seen.tools_executed = run[h].tools_executed
                  /\ Len(seen.tools_executed) = Len(tool_calls[h])
            /\ seen.status = "error" => seen.error # None

\* C26: an execute_tool call that returns success false, whatever the reason
\* (unknown tool, missing input key, malformed input, failed write), leaves
\* the five documents with the content they had before the call.
C26_FailureLeavesDocs ==
    [][\A j \in Handles :
          (Executes(j) /\ ~Returned(j).success) => docs' = docs]_vars

\* C27: update_inventory with an action other than add, remove, update and
\* replace_all is not refused: with a list of items it writes the inventory
\* back as it was and returns success, and fails only when that write fails.
C27_UnknownActionRewrites ==
    [][\A j \in Handles :
          (/\ Executes(j)
           /\ CalledBlock(j).name = "update_inventory"
           /\ "action" \in DOMAIN CalledBlock(j).input
           /\ CalledBlock(j).input.action \notin {"add", "remove", "update", "replace_all"}
           /\ IsList(CalledBlock(j).input.items))
             => /\ docs' = docs
                /\ IF write_faults' = write_faults
                   THEN Returned(j) = LogRecord("update_inventory",
                                                Success("Inventory clear: 1 items"))
                   ELSE Returned(j) = LogRecord("update_inventory", Failure(WriteError))]_vars

\* the action clear was asked of the stock of three: the call is in the log as
\* a success and the stock is as it was
C27_Witness ==
    /\ tool_calls[1] # <<>>
    /\ tool_calls[1][1].id = "t7"
    /\ run[1].tools_executed =
          <<LogRecord("update_inventory", Success("Inventory clear: 1 items"))>>
    /\ docs.inventory = Stocked

----------------------------------------------------------------------------
\* The order of the rate check and the validation in the two endpoints

\* C28: POST /api/chat and POST /api/action check the rate before they look
\* at the body: a request with an empty message or an unknown action creates
\* no Job and schedules no run, and it takes one of the ten slots of the
\* window unless the window is full, when it is rejected with 429 and takes
\* none; no request rejected by the rate check creates a Job or takes a slot.
C28_RateCheckFirst ==
    [][/\ (chat("") \/ action("send_email")) =>
             LET kept == Pruned(rate_timestamps, now)
             IN  /\ RESPONSES' = RESPONSES /\ jobs' = jobs /\ run' = run
                 /\ Len(rate_log') = Len(rate_log) + 1
                 /\ rate_log'[Len(rate_log')].allowed = (Len(kept) < RATE_LIMIT_MAX)
                 /\ rate_timestamps' = IF Len(kept) < RATE_LIMIT_MAX
                                       THEN Append(kept, now) ELSE kept
       /\ (Len(rate_log') > Len(rate_log) /\ ~rate_log'[Len(rate_log')].allowed) =>
             /\ RESPONSES' = RESPONSES /\ jobs' = jobs /\ run' = run
             /\ rate_timestamps' = Pruned(rate_timestamps, now)]_vars

\* ten requests with nothing to run filled the window, so that the eleventh
\* request was rejected with 429: no Job exists and the ten slots are taken
C28_Witness ==
    /\ Len(rate_log) = 11
    /\ \A i \in 1..10 : rate_log[i].allowed
    /\ ~rate_log[11].allowed
    /\ Len(rate_timestamps) = RATE_LIMIT_MAX
    /\ RESPONSES = {}
    /\ \A h \in Handles : jobs[h] = NoJob

====
